---- MODULE Spec2Model ----
(***************************************************************************)
(* Model of the Sphinx extensions of the documentation site:               *)
(*   _extensions/api.py                       the :api: / :apiplural:      *)
(*                                            roles and their visitors     *)
(*   _extensions/parsed_literal_highlight.py  the literal-block visitor    *)
(*                                                                         *)
(* A Python string is a sequence of one-character strings, a path is a     *)
(* sequence of segments (each a string), so that replace(), startswith(),  *)
(* slicing and os.path.relpath() are computed, not assumed.                *)
(***************************************************************************)
EXTENDS Integers, Sequences, FiniteSets, TLC

\* ------------------------------------------------------------------ bounds

MaxTokenLen == 3   \* longest role text drawn in the single-visit runs
MaxNameLen == 2    \* longest role text drawn in the multi-page session
MaxVisits == 2     \* pages rendered in one build session
MaxClasses == 2    \* classes on one literal block

\* ------------------------------------------------------- string helpers

UpperCase == {"A", "B", "C", "D", "E", "F", "G", "H", "I", "J", "K", "L", "M",
              "N", "O", "P", "Q", "R", "S", "T", "U", "V", "W", "X", "Y", "Z"}

Whitespace == {" ", "\t", "\n", "\r"}

\* str.startswith
StartsWith(s, p) == Len(s) >= Len(p) /\ SubSeq(s, 1, Len(p)) = p

\* str.endswith
EndsWith(s, p) == Len(s) >= Len(p) /\ SubSeq(s, Len(s) - Len(p) + 1, Len(s)) = p

\* str.replace(old, new) for one-character old and new
Replace(s, old, new) == [i \in 1..Len(s) |-> IF s[i] = old THEN new ELSE s[i]]

\* str.find(ch) != -1
Contains(s, ch) == \E i \in 1..Len(s) : s[i] = ch

\* str.strip()
Strip(s) ==
    LET keep == {i \in 1..Len(s) : s[i] \notin Whitespace}
        Min(S) == CHOOSE x \in S : \A y \in S : x <= y
        Max(S) == CHOOSE x \in S : \A y \in S : x >= y
    IN IF keep = {} THEN <<>> ELSE SubSeq(s, Min(keep), Max(keep))

RECURSIVE Join(_, _)
\* sep.join(parts)
Join(parts, sep) ==
    IF parts = <<>> THEN <<>>
    ELSE IF Len(parts) = 1 THEN parts[1]
    ELSE parts[1] \o <<sep>> \o Join(Tail(parts), sep)

RECURSIVE Split(_, _)
\* str.split(sep)
Split(s, sep) ==
    IF ~Contains(s, sep) THEN <<s>>
    ELSE LET i == CHOOSE k \in 1..Len(s) : s[k] = sep /\ \A j \in 1..(k - 1) : s[j] # sep
         IN <<SubSeq(s, 1, i - 1)>> \o Split(SubSeq(s, i + 1, Len(s)), sep)

\* All strings over an alphabet, up to a length
Strings(alphabet, n) == UNION {[1..k -> alphabet] : k \in 0..n}

\* ---------------------------------------------------------- path helpers

RECURSIVE CommonPrefixLen(_, _)
CommonPrefixLen(a, b) ==
    IF a = <<>> \/ b = <<>> \/ a[1] # b[1] THEN 0
    ELSE 1 + CommonPrefixLen(Tail(a), Tail(b))

DotDot == <<".", ".">>

\* os.path.relpath(path, start) of two absolute paths, '/'-separated
RelPath(path, start) ==
    LET i == CommonPrefixLen(path, start)
        rel == [k \in 1..(Len(start) - i) |-> DotDot] \o SubSeq(path, i + 1, Len(path))
    IN IF rel = <<>> THEN <<".">> ELSE Join(rel, "/")

\* ------------------------------------------------------------------ state

VARIABLES
    format,            \* the builder's output format: the key of _NODE_VISITORS
    outdir,            \* env.app.outdir, absolute, as segments
    javadoc_dir,       \* os.path.abspath(env.config['javadoc_dir']), as segments
    tree,              \* the files under javadoc_dir, in os.walk order
    docdir,            \* directory of the page being written, relative to outdir
    envAttrs,          \* names of the attributes set on the build environment
    javadoc_mappings,  \* env.__javadoc_mappings__
    scans,             \* number of os.walk scans of javadoc_dir so far
    pages,             \* pages started in this session
    node,              \* the node the translator is visiting
    pc,                \* "idle" | "pending" | "visited" | "aborted"
    body,              \* self.body of the page's translator
    raised,            \* what the visitor raised: "none" | "SkipNode" | "ExtensionError"
    message,           \* the ExtensionError's message
    warnings,          \* builder.warn calls of the page
    highlight_calls,   \* highlighter.highlight_block calls of the page: (text, lang)
    next_visitor_calls \* next_visitor calls of the page: the node passed on

vars == <<format, outdir, javadoc_dir, tree, docdir, envAttrs, javadoc_mappings,
          scans, pages, node, pc, body, raised, message, warnings,
          highlight_calls, next_visitor_calls>>

\* --------------------------------------------------------------- literals

DotHtml == <<".", "h", "t", "m", "l">>
PackageSummaryHtml ==
    <<"/", "p", "a", "c", "k", "a", "g", "e", "-", "s", "u", "m", "m", "a", "r", "y">> \o DotHtml
HighlightPrefix == <<"h", "i", "g", "h", "l", "i", "g", "h", "t", "-">>
HtmlSuffixLen == 5
HighlightPrefixLen == 10

Formats == {"html", "latex", "man", "texinfo", "text"}

\* ------------------------------------------------------ nodes, fragments

NoNode == [kind |-> "none", role |-> "", text |-> <<>>, is_plural |-> FALSE,
           classes |-> <<>>]

\* api_role_internal: the ApiLink node of a role
ApiRoleInternal(plural, role, text) ==
    [kind |-> "api", role |-> role, text |-> text, is_plural |-> plural,
     classes |-> <<"code", "api-reference">>]

\* api_role
ApiRole(text) == ApiRoleInternal(FALSE, "api", text)

\* apiplural_role
ApiPluralRole(text) == ApiRoleInternal(TRUE, "apiplural", text)

LiteralBlock(classes, text) ==
    [kind |-> "literal", role |-> "", text |-> text, is_plural |-> FALSE,
     classes |-> classes]

Frag(kind, tag, class, href, text, lang) ==
    [kind |-> kind, tag |-> tag, class |-> class, href |-> href, text |-> text,
     lang |-> lang]

\* self.starttag(node, tag, suffix='', CLASS=class[, HREF=href])
StartTag(tag, class, href) == Frag("start", tag, class, href, <<>>, <<>>)
EndTag(tag) == Frag("end", tag, "", <<>>, <<>>, <<>>)
Text(text) == Frag("text", "", "", <<>>, text, <<>>)
\* self.highlighter.highlight_block(text, lang, warn=warner)
HighlightBlock(text, lang) == Frag("highlighted", "", "", <<>>, text, lang)
\* what the default visit_literal_block writes for the node
DefaultLiteral(n) == Frag("literal", "pre", "", <<>>, n.text, <<>>)

NoMessage == [prefix |-> "", name |-> <<>>]

\* ------------------------------------------------- api.py: the mapping

EmptyMap == [k \in {} |-> <<>>]

Put(m, k, v) == [x \in DOMAIN m \cup {k} |-> IF x = k THEN v ELSE m[x]]

\* hasattr(env, '__javadoc_cache__') is false
CacheMissing(attrs) == "__javadoc_cache__" \notin attrs

\* re.match(r'^[^A-Z]', basename) or not basename.endswith('.html')
IsIgnoredFile(basename) ==
    \/ (Len(basename) > 0 /\ basename[1] \notin UpperCase)
    \/ ~EndsWith(basename, DotHtml)

\* faulty variant: the '.' of a nested class's file name is kept in the key
SimpleClassName_KeepDots(basename) ==
    SubSeq(basename, 1, Len(basename) - 5)

\* basename[:-5].replace('.', '$')
SimpleClassName(basename) ==
    Replace(SubSeq(basename, 1, Len(basename) - HtmlSuffixLen), ".", "$")

\* os.path.relpath(dirname, javadoc_dir).replace(os.sep, '/') + '/' + basename
MappedPath(dirname, jd, basename) == RelPath(dirname, jd) \o <<"/">> \o basename

RECURSIVE ScanFiles(_, _, _)
\* the os.walk loop: a later file of the same simple name replaces an earlier one
ScanFiles(files, jd, m) ==
    IF files = <<>> THEN m
    ELSE LET f == Head(files)
         IN ScanFiles(Tail(files), jd,
                IF IsIgnoredFile(f.basename) THEN m
                ELSE Put(m, SimpleClassName(f.basename),
                         MappedPath(jd \o f.sub, jd, f.basename)))

\* ------------------------------------------- api.py: resolving the text

\* text.startswith('@')
IsAnnotation(text) == StartsWith(text, <<"@">>)

\* text[1:] when it starts with '@'
StripAnnotation(text) == IF IsAnnotation(text) THEN Tail(text) ELSE text

\* text.find('.') != -1
IsQualified(text) == Contains(text, ".")

\* re.fullmatch(r'^[^A-Z$]+$', text)
IsPackage(text) ==
    Len(text) > 0 /\ \A i \in 1..Len(text) : text[i] \notin UpperCase \cup {"$"}

\* faulty variant: the package's dots are not turned into path separators
PackageUri_KeepDots(text) ==
    text \o <<"/", "p", "a", "c", "k", "a", "g", "e", "-", "s", "u", "m", "m", "a", "r", "y",
              ".", "h", "t", "m", "l">>

\* text.replace('.', '/') + '/package-summary.html'
PackageUri(text) == Replace(text, ".", "/") \o PackageSummaryHtml

\* text.replace('.', '/').replace('$', '.') + '.html'
ClassUri(text) == Replace(Replace(text, ".", "/"), "$", ".") \o DotHtml

\* faulty variant: the '$' of a nested class stays in the display text
ClassText_KeepDollar(text) ==
    LET dots == {i \in 1..Len(text) : text[i] = "."}
        last == CHOOSE i \in dots : \A j \in dots : j <= i
    IN IF dots = {} THEN text ELSE SubSeq(text, last + 1, Len(text))

\* re.sub(r'^.*\.', '', text).replace('$', '.')
ClassText(text) ==
    LET dots == {i \in 1..Len(text) : text[i] = "."}
        last == CHOOSE i \in dots : \A j \in dots : j <= i
    IN Replace(IF dots = {} THEN text ELSE SubSeq(text, last + 1, Len(text)), "$", ".")

\* text.replace('$', '.') of a simple class name
SimpleText(text) == Replace(text, "$", ".")

\* text not in javadoc_mappings, for a simple class name
IsMissing(text, mappings) == ~IsQualified(text) /\ text \notin DOMAIN mappings

\* faulty variant: the message does not name the class
MissingClassMessage_Unnamed(text) ==
    [prefix |-> "Cannot find a class from Javadoc", name |-> <<>>]

\* ExtensionError(f'Cannot find a class from Javadoc: {text}')
MissingClassMessage(text) ==
    [prefix |-> "Cannot find a class from Javadoc: ", name |-> text]

\* the uri of lines 60-74, before the Javadoc directory is prepended
Destination(text, mappings) ==
    IF IsQualified(text)
    THEN IF IsPackage(text) THEN PackageUri(text) ELSE ClassUri(text)
    ELSE mappings[text]

\* the text of lines 60-74, before the '@' is put back
DisplayText(text) ==
    IF IsQualified(text)
    THEN IF IsPackage(text) THEN text ELSE ClassText(text)
    ELSE SimpleText(text)

\* os.path.relpath(javadoc_dir, env.app.outdir).replace(os.sep, '/') + '/' + uri
PrependJavadocDir(uri, jd, out) == RelPath(jd, out) \o <<"/">> \o uri

\* faulty variant: the '@' is never put back
PrependAt_Never(is_annotation, text) == text

\* text = '@' + text if is_annotation
PrependAt(is_annotation, text) == IF is_annotation THEN <<"@">> \o text ELSE text

\* faulty variant: 'x' is missing from the endings that take 'es'
NeedsEs_NoX(text) ==
    \/ EndsWith(text, <<"c", "h">>)
    \/ EndsWith(text, <<"s">>)
    \/ EndsWith(text, <<"s", "h">>)
    \/ EndsWith(text, <<"z">>)

\* re.fullmatch(r'^.*(ch|s|sh|x|z)$', text)
NeedsEs(text) ==
    \/ EndsWith(text, <<"c", "h">>)
    \/ EndsWith(text, <<"s">>)
    \/ EndsWith(text, <<"s", "h">>)
    \/ EndsWith(text, <<"x">>)
    \/ EndsWith(text, <<"z">>)

PluralSuffix(text) == IF NeedsEs(text) THEN <<"e", "s">> ELSE <<"s">>

\* the tags appended to self.body
EmitTags(uri, text, is_plural) ==
    <<StartTag("code", "docutils literal javadoc", <<>>),
      StartTag("a", "reference external javadoc", uri),
      Text(text),
      EndTag("a")>>
    \o (IF is_plural
        THEN <<StartTag("span", "plural-suffix", <<>>), Text(PluralSuffix(text)),
               EndTag("span")>>
        ELSE <<>>)
    \o <<EndTag("code")>>

\* faulty variant: the text format is given the HTML visitor
NodeVisitor_TextAsHtml(fmt) ==
    IF fmt \in {"html", "text"} THEN "visit_api_node" ELSE "unsupported_visit_api"

\* _NODE_VISITORS: the visitor add_node registers for each output format
NodeVisitor(fmt) ==
    IF fmt = "html" THEN "visit_api_node" ELSE "unsupported_visit_api"

\* visit_api_node: the visitor of an ApiLink node in the HTML translator
visit_api_node ==
    /\ pc = "pending" /\ node.kind = "api"
    /\ NodeVisitor(format) = "visit_api_node"
    /\ LET miss == CacheMissing(envAttrs)
           mappings == IF miss THEN ScanFiles(tree, javadoc_dir, EmptyMap)
                       ELSE javadoc_mappings
           is_annotation == IsAnnotation(node.text)
           text == StripAnnotation(node.text)
       IN /\ envAttrs' = IF miss THEN envAttrs \cup {"__javadoc_mappings__"} ELSE envAttrs
          /\ javadoc_mappings' = mappings
          /\ scans' = IF miss THEN scans + 1 ELSE scans
          /\ IF IsMissing(text, mappings)
             THEN /\ raised' = "ExtensionError"
                  /\ message' = MissingClassMessage(text)
                  /\ body' = body
                  /\ pc' = "aborted"
             ELSE /\ raised' = "SkipNode"
                  /\ message' = NoMessage
                  /\ body' = body \o EmitTags(
                                 PrependJavadocDir(Destination(text, mappings),
                                                   javadoc_dir, outdir),
                                 PrependAt(is_annotation, DisplayText(text)),
                                 node.is_plural)
                  /\ pc' = "visited"
    /\ UNCHANGED <<format, outdir, javadoc_dir, tree, docdir, pages, node, warnings,
                   highlight_calls, next_visitor_calls>>

\* unsupported_visit_api: the visitor of an ApiLink node in every other translator
unsupported_visit_api ==
    /\ pc = "pending" /\ node.kind = "api"
    /\ NodeVisitor(format) = "unsupported_visit_api"
    /\ warnings' = Append(warnings, "api: unsupported output format (node skipped)")
    /\ raised' = "SkipNode"
    /\ pc' = "visited"
    /\ UNCHANGED <<format, outdir, javadoc_dir, tree, docdir, envAttrs,
                   javadoc_mappings, scans, pages, node, body, message,
                   highlight_calls, next_visitor_calls>>

\* --------------------------------------- parsed_literal_highlight.py

RECURSIVE FindLang_NoStrip(_)
\* faulty variant: the label is not stripped of whitespace
FindLang_NoStrip(classes) ==
    IF classes = <<>> THEN <<>>
    ELSE IF StartsWith(Head(classes), <<"h", "i", "g", "h", "l", "i", "g", "h", "t", "-">>)
         THEN SubSeq(Head(classes), 11, Len(Head(classes)))
         ELSE FindLang_NoStrip(Tail(classes))

RECURSIVE FindLang(_)
\* the loop over the classes: the first 'highlight-' class decides, c[10:].strip()
FindLang(classes) ==
    IF classes = <<>> THEN <<>>
    ELSE IF StartsWith(Head(classes), HighlightPrefix)
         THEN Strip(SubSeq(Head(classes), HighlightPrefixLen + 1, Len(Head(classes))))
         ELSE FindLang(Tail(classes))

\* len(lang) == 0
PassesThrough(lang) == Len(lang) = 0

\* parsed_literal_visit_literal_block, installed as HTMLTranslator.visit_literal_block
parsed_literal_visit_literal_block ==
    /\ pc = "pending" /\ node.kind = "literal" /\ format = "html"
    /\ LET lang == FindLang(node.classes)
       IN IF PassesThrough(lang)
          THEN /\ next_visitor_calls' = Append(next_visitor_calls, node)
               /\ body' = Append(body, DefaultLiteral(node))
               /\ raised' = "none"
               /\ UNCHANGED highlight_calls
          ELSE /\ highlight_calls' = Append(highlight_calls, <<node.text, lang>>)
               /\ body' = Append(body, HighlightBlock(node.text, lang))
               /\ raised' = "SkipNode"
               /\ UNCHANGED next_visitor_calls
    /\ pc' = "visited"
    /\ UNCHANGED <<format, outdir, javadoc_dir, tree, docdir, envAttrs,
                   javadoc_mappings, scans, pages, node, message, warnings>>

\* ------------------------------------------------------------ the inputs

Alphabet == {"@", ".", "$", "A", "c", "h", "s", "x"}

OutSeg == <<"o", "u", "t">>
ApiDocsSeg == <<"a", "p", "i", "d", "o", "c", "s">>
PkgSeg == <<"c">>
SubPkgSeg == <<"x">>
GuideSeg == <<"g", "u", "i", "d", "e">>

\* app.outdir
OutDir == <<OutSeg>>

\* setup: the default of javadoc_dir is os.path.join(app.outdir, 'apidocs')
DefaultJavadocDir == OutDir \o <<ApiDocsSeg>>

\* javadoc_dir as configured: the default, or a directory beside the output
JavadocDirs == {DefaultJavadocDir, <<ApiDocsSeg>>}

\* the page is written to the output root or to a directory below it
DocDirs == {<<>>, <<GuideSeg>>}

File(sub, basename) == [sub |-> sub, basename |-> basename]

\* Javadoc trees, each in an order os.walk can produce: a directory before its
\* subdirectories, the files of one directory in either order
Trees ==
    { <<>>,
      <<File(<<>>, <<"A">> \o DotHtml),
        File(<<>>, <<"c">> \o DotHtml),
        File(<<>>, <<"A", "s", ".", "c", "s", "s">>),
        File(<<>>, <<"A", "h", "t", "m", "l">>),
        File(<<PkgSeg>>, <<"A", ".", "s">> \o DotHtml)>>,
      <<File(<<>>, <<"A">> \o DotHtml),
        File(<<>>, DotHtml),
        File(<<PkgSeg>>, <<"A">> \o DotHtml),
        File(<<PkgSeg, SubPkgSeg>>, <<"A", "x">> \o DotHtml)>>,
      <<File(<<PkgSeg>>, <<"A", "$", "s">> \o DotHtml),
        File(<<PkgSeg>>, <<"A", ".", "s">> \o DotHtml)>>,
      <<File(<<PkgSeg>>, <<"A", ".", "s">> \o DotHtml),
        File(<<PkgSeg>>, <<"A", "$", "s">> \o DotHtml)>> }

ApiNodes(n) ==
    {ApiRole(t) : t \in Strings(Alphabet, n)} \cup
    {ApiPluralRole(t) : t \in Strings(Alphabet, n)}

ClassNames ==
    { <<"c", "o", "d", "e">>,
      <<"h", "i", "g", "h">>,
      HighlightPrefix,
      HighlightPrefix \o <<" ">>,
      HighlightPrefix \o <<"c">>,
      HighlightPrefix \o <<"j", "a", "v", "a">> }

BlockTexts == {<<"x">>, <<"c", "h">>}

LiteralNodes ==
    {LiteralBlock(cs, t) : cs \in Strings(ClassNames, MaxClasses), t \in BlockTexts}

\* ------------------------------------------------- the build session

\* a new page: its translator starts with an empty body
FreshPage ==
    /\ body = <<>>
    /\ raised = "none"
    /\ message = NoMessage
    /\ warnings = <<>>
    /\ highlight_calls = <<>>
    /\ next_visitor_calls = <<>>

\* a new environment: nothing cached, nothing scanned
FreshEnv ==
    /\ envAttrs = {}
    /\ javadoc_mappings = EmptyMap
    /\ scans = 0

Init ==
    /\ format \in Formats
    /\ outdir = OutDir
    /\ javadoc_dir = DefaultJavadocDir
    /\ tree \in Trees
    /\ docdir = <<>>
    /\ FreshEnv
    /\ pages = 0
    /\ node = NoNode
    /\ pc = "idle"
    /\ FreshPage

\* the writer reaches an ApiLink node of the page (app.add_node(ApiLink, ...))
ReachApiLink ==
    /\ pc = "idle" /\ pages < MaxVisits
    /\ node' \in ApiNodes(MaxNameLen)
    /\ pages' = pages + 1
    /\ pc' = "pending"
    /\ UNCHANGED <<format, outdir, javadoc_dir, tree, docdir, envAttrs,
                   javadoc_mappings, scans, body, raised, message, warnings,
                   highlight_calls, next_visitor_calls>>

\* the HTML writer reaches a literal block of the page
ReachLiteralBlock ==
    /\ pc = "idle" /\ pages < MaxVisits /\ format = "html"
    /\ node' \in LiteralNodes
    /\ pages' = pages + 1
    /\ pc' = "pending"
    /\ UNCHANGED <<format, outdir, javadoc_dir, tree, docdir, envAttrs,
                   javadoc_mappings, scans, body, raised, message, warnings,
                   highlight_calls, next_visitor_calls>>

\* the page is written out and the next one gets a new translator
NextPage ==
    /\ pc = "visited"
    /\ pc' = "idle"
    /\ node' = NoNode
    /\ body' = <<>>
    /\ raised' = "none"
    /\ message' = NoMessage
    /\ warnings' = <<>>
    /\ highlight_calls' = <<>>
    /\ next_visitor_calls' = <<>>
    /\ UNCHANGED <<format, outdir, javadoc_dir, tree, docdir, envAttrs,
                   javadoc_mappings, scans, pages>>

Next ==
    \/ ReachApiLink
    \/ ReachLiteralBlock
    \/ visit_api_node
    \/ unsupported_visit_api
    \/ parsed_literal_visit_literal_block
    \/ NextPage

Spec == Init /\ [][Next]_vars

\* ----------------------------------- one visit of one node, all inputs

InitResolve ==
    /\ format = "html"
    /\ outdir = OutDir
    /\ javadoc_dir \in JavadocDirs
    /\ tree \in Trees
    /\ docdir \in DocDirs
    /\ FreshEnv
    /\ pages = 1
    /\ node \in ApiNodes(MaxTokenLen)
    /\ pc = "pending"
    /\ FreshPage

NextResolve == visit_api_node

SpecResolve == InitResolve /\ [][NextResolve]_vars

\* ------------------------------------------------------------ the claims

\* the role text without one leading '@'
Stripped == IF node.text # <<>> /\ node.text[1] = "@" THEN Tail(node.text) ELSE node.text

Marked == node.text # <<>> /\ node.text[1] = "@"

\* the HTML visitor of an ApiLink node has run
ApiDone == node.kind = "api" /\ format = "html" /\ pc \in {"visited", "aborted"}

\* ... and has emitted its tags
ApiVisited == node.kind = "api" /\ format = "html" /\ pc = "visited"

\* the hyperlink's start tag is the second fragment, the display text the third
HasLink ==
    /\ Len(body) >= 4
    /\ body[2].kind = "start" /\ body[2].tag = "a"
    /\ body[3].kind = "text"
    /\ body[4] = EndTag("a")

\* the part of s after its last ch (all of s when ch is not in it)
AfterLast(s, ch) ==
    LET at == {i \in 1..Len(s) : s[i] = ch}
    IN IF at = {} THEN s
       ELSE SubSeq(s, (CHOOSE i \in at : \A j \in at : j <= i) + 1, Len(s))

NoUpperNoDollar(s) == \A i \in 1..Len(s) : s[i] \notin UpperCase /\ s[i] # "$"

\* a directory below the reference root, as the relative path the mapping stores
RelDir(sub) == IF sub = <<>> THEN <<".">> ELSE Join(sub, "/")

RECURSIVE Normalize(_, _)
\* the segments of a path with '', '.' and '..' resolved, as a browser or a
\* file system resolves them
Normalize(done, rest) ==
    IF rest = <<>> THEN done
    ELSE LET seg == Head(rest)
         IN IF seg = <<>> \/ seg = <<".">> THEN Normalize(done, Tail(rest))
            ELSE IF seg = DotDot
                 THEN Normalize(IF done = <<>> THEN <<>>
                                ELSE SubSeq(done, 1, Len(done) - 1), Tail(rest))
                 ELSE Normalize(Append(done, seg), Tail(rest))

\* the file a relative link leads to, followed from a page in directory dir
FollowLink(dir, href) == Normalize(<<>>, dir \o Split(href, "/"))

\* C1: a simple name (no '.', after stripping one leading '@') that is not a key
\* of the mapping makes visit_api_node fail with an ExtensionError naming exactly
\* the stripped name, and nothing has been appended to the body.
C1_MissingNameFails ==
    (ApiDone /\ ~Contains(Stripped, ".") /\ Stripped \notin DOMAIN javadoc_mappings)
    => /\ pc = "aborted"
       /\ raised = "ExtensionError"
       /\ message.name = Stripped
       /\ body = <<>>

C1_Witness ==
    /\ ApiDone /\ pc = "aborted" /\ raised = "ExtensionError"
    /\ node.text = <<"@", "A", "s">>
    /\ DOMAIN javadoc_mappings # {}

\* C2: a simple name that is a key of the mapping is linked to a URI ending in
\* the mapped path; every key is <Base> with '.' replaced by '$' of a scanned file
\* <dir>/<Base>.html whose name starts with A-Z, and its path is the file's
\* directory relative to the reference root, '/', and the file name.
C2_MappedNameLinks ==
    /\ (ApiDone /\ ~Contains(Stripped, ".") /\ Stripped \in DOMAIN javadoc_mappings)
       => /\ pc = "visited"
          /\ HasLink
          /\ EndsWith(body[2].href, javadoc_mappings[Stripped])
    /\ ApiDone =>
         \A k \in DOMAIN javadoc_mappings :
           \E i \in 1..Len(tree) :
             LET base == tree[i].basename
             IN /\ Len(base) > Len(DotHtml)
                /\ base[1] \in UpperCase
                /\ EndsWith(base, DotHtml)
                /\ k = Replace(SubSeq(base, 1, Len(base) - Len(DotHtml)), ".", "$")
                /\ javadoc_mappings[k] = RelDir(tree[i].sub) \o <<"/">> \o base

C2_Witness ==
    /\ ApiVisited /\ HasLink
    /\ node.text = <<"A", "$", "s">>
    /\ javadoc_mappings[Stripped] = <<"c", "/", "A", ".", "s">> \o DotHtml
    /\ docdir = <<>>

\* C3: within one build session the scan that builds the mapping is performed
\* at most once, however many reference links are resolved.
C3_ScanAtMostOnce == scans <= 1

\* C4: the emitted URI is the relative path between the reference directory and
\* the output directory, '/', and the destination, and followed from the page
\* that contains it the link reaches the intended file of the reference tree,
\* however deep the page lies below the output root.
C4_LinkReachesTarget ==
    ApiVisited =>
      /\ HasLink
      /\ body[2].href = RelPath(javadoc_dir, outdir) \o <<"/">>
                        \o Destination(Stripped, javadoc_mappings)
      /\ FollowLink(outdir \o docdir, body[2].href)
         = Normalize(<<>>, javadoc_dir
                           \o Split(Destination(Stripped, javadoc_mappings), "/"))

\* C5: a token with a '.' and, after stripping a leading '@', no upper-case
\* letter and no '$' is a package: the destination is the stripped token with
\* '.' replaced by '/' followed by '/package-summary.html', the display text is
\* the whole token, and it never fails, whatever the mapping holds.
C5_PackageLinks ==
    (ApiDone /\ Contains(node.text, ".") /\ NoUpperNoDollar(Stripped))
    => /\ pc = "visited"
       /\ raised = "SkipNode"
       /\ HasLink
       /\ body[2].href = RelPath(javadoc_dir, outdir) \o <<"/">>
                         \o Replace(Stripped, ".", "/") \o PackageSummaryHtml
       /\ body[3].text = node.text

C5_Witness ==
    /\ ApiVisited /\ HasLink
    /\ node.text = <<"@", "c", ".">>
    /\ tree = <<>>
    /\ body[3].text = <<"@", "c", ".">>

\* C6 as claimed: a token with a '.' and an upper-case letter or a '$' is a class
\* whose display text is the part of the token after its last '.', with '$' as
\* '.', and whose destination is the token with '.' as '/', then '$' as '.',
\* followed by '.html'.
C6_Original ==
    (ApiDone /\ Contains(node.text, ".") /\ ~NoUpperNoDollar(node.text))
    => /\ pc = "visited"
       /\ HasLink
       /\ body[3].text = Replace(AfterLast(node.text, "."), "$", ".")
       /\ body[2].href = RelPath(javadoc_dir, outdir) \o <<"/">>
                         \o Replace(Replace(node.text, ".", "/"), "$", ".") \o DotHtml

\* C6, amended: the token is taken after stripping one leading '@'; the display
\* text is the part of the stripped token after its last '.', with '$' as '.',
\* prefixed with '@' when the marker was stripped; the destination is the
\* stripped token with '.' as '/', then '$' as '.', followed by '.html'; it never
\* fails, whatever the mapping holds.
C6_ClassLinks ==
    (ApiDone /\ Contains(node.text, ".") /\ ~NoUpperNoDollar(node.text))
    => /\ pc = "visited"
       /\ raised = "SkipNode"
       /\ HasLink
       /\ body[3].text = (IF Marked THEN <<"@">> ELSE <<>>)
                         \o Replace(AfterLast(Stripped, "."), "$", ".")
       /\ body[2].href = RelPath(javadoc_dir, outdir) \o <<"/">>
                         \o Replace(Replace(Stripped, ".", "/"), "$", ".") \o DotHtml

C6_Witness ==
    /\ ApiVisited /\ HasLink
    /\ node.text = <<"c", ".", "$">>
    /\ body[3].text = <<".">>
    /\ tree = <<>>

\* C7: the plural suffix element is emitted exactly for nodes of the 'apiplural'
\* role; it follows the closed hyperlink inside the code element and holds 'es'
\* when the display text ends in ch, s, sh, x or z, and 's' otherwise.
C7_PluralSuffix ==
    /\ ApiVisited =>
         /\ HasLink
         /\ body[1] = StartTag("code", "docutils literal javadoc", <<>>)
         /\ (\E i \in 1..Len(body) : body[i].tag = "span") <=> (node.role = "apiplural")
         /\ node.role = "api" => Len(body) = 5 /\ body[5] = EndTag("code")
         /\ node.role = "apiplural" =>
              /\ Len(body) = 8
              /\ body[5] = StartTag("span", "plural-suffix", <<>>)
              /\ body[6] = Text(IF \E e \in {<<"c", "h">>, <<"s">>, <<"s", "h">>,
                                               <<"x">>, <<"z">>} :
                                      EndsWith(body[3].text, e)
                                THEN <<"e", "s">> ELSE <<"s">>)
              /\ body[7] = EndTag("span")
              /\ body[8] = EndTag("code")
    /\ PluralSuffix(<<"C", "l", "a", "s", "s">>) = <<"e", "s">>
    /\ PluralSuffix(<<"B", "o", "x">>) = <<"e", "s">>
    /\ PluralSuffix(<<"B", "e", "a", "n">>) = <<"s">>

C7_Witness ==
    /\ ApiVisited /\ HasLink
    /\ node.role = "apiplural"
    /\ Len(body) = 8
    /\ EndsWith(body[3].text, <<"c", "h">>)
    /\ body[6].text = <<"e", "s">>

\* C8: a leading '@' is stripped before classification, lookup and destination
\* (the name the error names, the key looked up and the URI are those of the
\* stripped token), and the display text is that of the stripped token prefixed
\* with exactly one '@'; without a leading '@' no marker is added.
C8_AnnotationRoundTrip ==
    /\ ApiDone =>
         /\ pc = "aborted" => message.name = Stripped
         /\ pc = "visited" =>
              /\ HasLink
              /\ ~Contains(Stripped, ".") => Stripped \in DOMAIN javadoc_mappings
              /\ body[2].href = RelPath(javadoc_dir, outdir) \o <<"/">>
                                \o Destination(Stripped, javadoc_mappings)
              /\ body[3].text = (IF Marked THEN <<"@">> ELSE <<>>)
                                \o DisplayText(Stripped)
    /\ StripAnnotation(<<"@", "O", "v", "e", "r", "r", "i", "d", "e">>)
       = <<"O", "v", "e", "r", "r", "i", "d", "e">>

C8_Witness ==
    /\ ApiVisited /\ HasLink
    /\ node.text = <<"@", "A">>
    /\ body[3].text = <<"@", "A">>
    /\ body[2].href = <<"a", "p", "i", "d", "o", "c", "s", "/", "c", "/", "A">> \o DotHtml

\* the classes of the block that begin with 'highlight-'
HighlightClasses == {i \in 1..Len(node.classes) : StartsWith(node.classes[i], HighlightPrefix)}

LiteralVisited == node.kind = "literal" /\ pc = "visited"

C10_UnsupportedSkips ==
    (node.kind = "api" /\ format # "html" /\ pc \in {"visited", "aborted"})
    => /\ pc = "visited"
       /\ raised = "SkipNode"
       /\ message = NoMessage
       /\ Len(warnings) = 1
       /\ body = <<>>
       /\ scans = 0
       /\ envAttrs = {}
       /\ javadoc_mappings = EmptyMap

C10_Witness ==
    /\ format = "latex" /\ node.kind = "api" /\ pc = "visited"
    /\ node.text = <<"c">>
    /\ tree # <<>>
    /\ pages = MaxVisits
    /\ Len(warnings) = 1

====
